---------------------------- MODULE Spec2Model ----------------------------
(***************************************************************************)
(* A model of simulation/simulate_sandwich.py: the discrete-event          *)
(* simulation of a Distributor that hands proxies to arriving clients and  *)
(* a Censor that enumerates proxies through malicious clients and blocks   *)
(* the most loaded proxy it knows.                                         *)
(*                                                                         *)
(* Proxies are identified by the index i of their name 'Proxy i'.  Python  *)
(* lists are sequences; a 0-based Python index k is element k+1 here.      *)
(* Virtual time is an integer clock: the exponential delays of the code    *)
(* are drawn from the whole numbers (random.expovariate can return 0.0).   *)
(*                                                                         *)
(* env.exit() is simpy 3's Environment.exit: it raises StopProcess, which  *)
(* ends the process it is raised in; env.run() returns once no process is  *)
(* pending.                                                                *)
(***************************************************************************)
EXTENDS Integers, Sequences, FiniteSets, TLC

\* ----------------------------------------------------------------- bounds
MaxProxies == 3        \* num_proxies ranges over 0..MaxProxies
MaxIdle == 0           \* arrivals that enumerate no new proxy though one could
MaxRepeat == 1         \* direct calls beyond one per proxy
MaxTime == 1           \* the virtual clock and censor_bootstrap: 0..MaxTime

\* ------------------------------------------------------ program constants
VICTIM_SET == 2        \* util.VICTIM_SET, the divisor of the victim set

NoProxy == 0 - 1       \* "no proxy" in the record of the last call

VARIABLES
    num_proxies,       \* run's argument
    censor_bootstrap,  \* run's argument
    trace,             \* run's argument
    panic_level,       \* the module-level global
    dproxies,          \* Distributor.proxies  (active list)
    dblocked,          \* Distributor.blocked
    devents,           \* Distributor.events
    cproxies,          \* Censor.proxies  (known list)
    cblocked,          \* Censor.blocked
    cevents,           \* Censor.events
    queue,             \* len(p.queue) of every proxy p
    counter,           \* generate_clients' local counter
    now,               \* env.now
    wake,              \* time at which each process's pending timeout fires
    pc,                \* position of each process
    lastRan,           \* the process whose timeout was scheduled last
    running,           \* FALSE once env.exit() has been raised
    last,              \* the last handler call and what it returned
    run_no,            \* 1 in the first call of run() of the process, then 2
    tape,              \* the random draws of the first run, in order
    replay,            \* the draws the second run has still to make
    returned           \* the events the first run returned

vars == <<num_proxies, censor_bootstrap, trace, panic_level, dproxies,
          dblocked, devents, cproxies, cblocked, cevents, queue, counter,
          now, wake, pc, lastRan, running, last, run_no, tape, replay,
          returned>>

\* what only a second call of run() changes
rvars == <<run_no, tape, replay, returned>>

\* ---------------------------------------------------------------- helpers
Range(s) == {s[i] : i \in 1 .. Len(s)}

\* list.remove(x): drops the first occurrence of x
RECURSIVE Remove(_, _)
Remove(s, x) ==
    IF s = <<>> THEN <<>>
    ELSE IF Head(s) = x THEN Tail(s)
    ELSE <<Head(s)>> \o Remove(Tail(s), x)

\* insertion of x in a list sorted by decreasing load, after its equals
RECURSIVE InsertDesc(_, _, _)
InsertDesc(s, x, q) ==
    IF s = <<>> THEN <<x>>
    ELSE IF q[x] > q[Head(s)] THEN <<x>> \o s
    ELSE <<Head(s)>> \o InsertDesc(Tail(s), x, q)

\* (mutant) the list is left in the order it has
SortDesc_None(s, q) == s

\* sorted(s, key=lambda p: len(p.queue), reverse=True): stable
RECURSIVE SortDesc(_, _)
SortDesc(s, q) ==
    IF s = <<>> THEN <<>>
    ELSE InsertDesc(SortDesc(SubSeq(s, 1, Len(s) - 1), q), s[Len(s)], q)


\* ------------------------------------------------------------- event log
\* (1 - len(blocked)/(len(proxies)+len(blocked))) * 100, as the whole
\* percentage below the exact value
SystemHealth(nactive, nblocked) ==
    (100 * nactive) \div (nactive + nblocked)

\* util.create_event(time, action, proxies, blocked, proxy, system_health)
create_event(time, action, proxies, blocked, proxy, system_health) ==
    [time |-> time, action |-> action, active |-> proxies,
     blocked |-> blocked, proxy |-> proxy, health |-> system_health]

\* ------------------------------------------------------ Distributor.assign
\* (mutant) the quotient is rounded up
VictimSize_RoundUp(active) == (Len(active) + VICTIM_SET - 1) \div VICTIM_SET

\* int(len(self.proxies) / util.VICTIM_SET)
VictimSize(active) == Len(active) \div VICTIM_SET

\* (mutant) default mode takes the second proxy on a tie
assign_TieSecond(active, q, pl, i1, i2, i3) ==
    LET random_proxy_1 == active[i1 + 1]
        random_proxy_2 == active[i2 + 1]
    IN  IF pl > 0
        THEN IF VictimSize(active) > 0
             THEN [proxy |-> active[i3 + 1], started |-> TRUE]
             ELSE [proxy |-> active[1], started |-> FALSE]
        ELSE IF q[random_proxy_1] >= q[random_proxy_2]
             THEN [proxy |-> random_proxy_2, started |-> TRUE]
             ELSE [proxy |-> random_proxy_1, started |-> TRUE]

\* The proxy assign returns and whether it started a service process on
\* it.  i1, i2 are the two randint(0, len-1) draws, i3 the draw
\* randint(0, victim_size-1) of panic mode.
assign(active, q, pl, i1, i2, i3) ==
    LET random_proxy_1 == active[i1 + 1]
        random_proxy_2 == active[i2 + 1]
    IN  IF pl > 0
        THEN IF VictimSize(active) > 0
             THEN [proxy |-> active[i3 + 1], started |-> TRUE]
             ELSE [proxy |-> active[1], started |-> FALSE]
        ELSE IF q[random_proxy_1] > q[random_proxy_2]
             THEN [proxy |-> random_proxy_2, started |-> TRUE]
             ELSE [proxy |-> random_proxy_1, started |-> TRUE]

\* the third draw exists only in panic mode with a non-empty victim set
ThirdDraws(active, pl) ==
    IF pl > 0 /\ VictimSize(active) > 0
    THEN 0 .. (VictimSize(active) - 1)
    ELSE {0}

\* ------------------------------------------------ Distributor.notify_block
\* (mutant) the blocked proxy is not removed from the active list
ActiveAfterBlock_Keep(active, blocked, p) == active

\* self.proxies after the call
ActiveAfterBlock(active, blocked, p) ==
    IF p \in Range(blocked) THEN active ELSE Remove(active, p)

\* (mutant) the proxy is appended without the membership test
BlockedAfterBlock_Always(blocked, p) == Append(blocked, p)

\* self.blocked after the call
BlockedAfterBlock(blocked, p) ==
    IF p \in Range(blocked) THEN blocked ELSE Append(blocked, p)

\* (mutant) PROXY_DEATH already with one proxy left
BlockAction_DeathEarly(active, blocked, p) ==
    IF p \in Range(blocked) THEN "MISS_PROXY_BLOCK"
    ELSE IF Len(Remove(active, p)) <= 1 THEN "PROXY_DEATH"
    ELSE "PROXY_BLOCK"

\* the action the call records
BlockAction(active, blocked, p) ==
    IF p \in Range(blocked) THEN "MISS_PROXY_BLOCK"
    ELSE IF Len(Remove(active, p)) = 0 THEN "PROXY_DEATH"
    ELSE "PROXY_BLOCK"

\* the system_health the call records
BlockHealth(active, blocked, p) ==
    IF BlockAction(active, blocked, p) = "PROXY_DEATH" THEN 0
    ELSE SystemHealth(Len(ActiveAfterBlock(active, blocked, p)),
                      Len(BlockedAfterBlock(blocked, p)))

\* (mutant) every PROXY_BLOCK raises panic_level
PanicAfterBlock_Unguarded(pl, active, blocked, p) ==
    IF BlockAction(active, blocked, p) = "PROXY_BLOCK" THEN pl + 1 ELSE pl

\* (mutant) the comparison is not strict
PanicAfterBlock_NotStrict(pl, active, blocked, p) ==
    IF /\ BlockAction(active, blocked, p) = "PROXY_BLOCK"
       /\ Len(BlockedAfterBlock(blocked, p))
            >= Len(ActiveAfterBlock(active, blocked, p))
    THEN pl + 1
    ELSE pl

\* panic_level after the call
PanicAfterBlock(pl, active, blocked, p) ==
    IF /\ BlockAction(active, blocked, p) = "PROXY_BLOCK"
       /\ Len(BlockedAfterBlock(blocked, p))
            > Len(ActiveAfterBlock(active, blocked, p))
    THEN pl + 1
    ELSE pl

\* (mutant) env.exit() is never reached
ExitsOnBlock_Never(active, blocked, p) == FALSE

\* self.env.exit() is reached
ExitsOnBlock(active, blocked, p) ==
    BlockAction(active, blocked, p) = "PROXY_DEATH"

\* notify_block(proxy) called at time t
notify_block(p, t) ==
    /\ dproxies' = ActiveAfterBlock(dproxies, dblocked, p)
    /\ dblocked' = BlockedAfterBlock(dblocked, p)
    /\ panic_level' = PanicAfterBlock(panic_level, dproxies, dblocked, p)
    /\ devents' = Append(devents,
           create_event(t, BlockAction(dproxies, dblocked, p),
                        ActiveAfterBlock(dproxies, dblocked, p),
                        BlockedAfterBlock(dblocked, p), p,
                        BlockHealth(dproxies, dblocked, p)))
    /\ running' = (running /\ ~ExitsOnBlock(dproxies, dblocked, p))

\* --------------------------------------------------------- Censor.enumerate
IsNewToCensor(known, blocked, p) ==
    p \notin Range(known) /\ p \notin Range(blocked)

\* (mutant) the proxy is appended without the membership test
KnownAfterEnumerate_Always(known, blocked, p) == Append(known, p)

\* self.proxies after enumerate(p)
KnownAfterEnumerate(known, blocked, p) ==
    IF IsNewToCensor(known, blocked, p) THEN Append(known, p) ELSE known

EnumerateAction(known, blocked, p) ==
    IF IsNewToCensor(known, blocked, p) THEN "ENUMERATE_PROXY"
    ELSE "MISS_ENUMERATE_PROXY"

\* the event enumerate(proxy) appends at time t
EnumerateEvent(known, blocked, p, t) ==
    create_event(t, EnumerateAction(known, blocked, p),
                 KnownAfterEnumerate(known, blocked, p), blocked, p, 0)

\* ---------------------------------------------------------- the scheduler
Other(proc) == IF proc = "censor" THEN "arrival" ELSE "censor"

\* proc is the process the scheduler resumes next: its timeout is the
\* earliest pending one, and of two timeouts for the same time the one
\* scheduled first
Turn(proc) ==
    /\ pc[proc] # "done"
    /\ \/ pc[Other(proc)] = "done"
       \/ wake[proc] < wake[Other(proc)]
       \/ wake[proc] = wake[Other(proc)] /\ lastRan # proc

\* the record of a call before any call was made
NoCall ==
    [op |-> "none", proxy |-> NoProxy, started |-> FALSE, panic |-> 0,
     active |-> <<>>, q |-> <<>>, i1 |-> 0, i2 |-> 0, malicious |-> FALSE,
     client |-> 0, action |-> "none", n |-> 0]

\* (mutant) counter is not incremented
NextCounter_Repeat == IF pc["arrival"] = "start" THEN 0 ELSE counter

\* the value of counter when the loop condition is evaluated
NextCounter == IF pc["arrival"] = "start" THEN 0 ELSE counter + 1

\* arrivals so far that did not make a new proxy known to the censor
Idle == NextCounter - (Len(cproxies) + Len(cblocked))

\* whatever the draws, assign returns a proxy the censor already knows
NothingNew ==
    \A j1, j2 \in 0 .. (Len(dproxies) - 1) :
       \A j3 \in ThirdDraws(dproxies, panic_level) :
          ~IsNewToCensor(cproxies, cblocked,
               assign(dproxies, queue, panic_level, j1, j2, j3).proxy)

\* ------------------------------------------------------------ Censor._block
\* (mutant) the bootstrap delay is not waited for
BootstrapWake_None(t, bootstrap) == t

\* the time at which the timeout of self.bootstrap, scheduled at t, fires
BootstrapWake(t, bootstrap) == t + bootstrap

\* first resumption: yield self.env.timeout(self.bootstrap)
CensorStart ==
    /\ Turn("censor")
    /\ pc["censor"] = "start"
    /\ now' = wake["censor"]
    /\ wake' = [wake EXCEPT !["censor"] =
                                BootstrapWake(now', censor_bootstrap)]
    /\ pc' = [pc EXCEPT !["censor"] = "wait"]
    /\ lastRan' = "censor"
    /\ UNCHANGED <<num_proxies, censor_bootstrap, trace, panic_level,
                   dproxies, dblocked, devents, cproxies, cblocked, cevents,
                   queue, counter, running, last>>

\* (mutant) the blocked proxy stays in the known list
KnownAfterBlock_Keep(sorted, p) == sorted

\* self.proxies.remove(block_proxy)
KnownAfterBlock(sorted, p) == Remove(sorted, p)

\* one iteration of the loop with a known proxy: sort, block the first
\* (Proxy.block notifies the Distributor), move it to the censor's blocked
\* list, sample the next delay t.  When notify_block exits, the statements
\* after block_proxy.block() are not executed and the process ends.
CensorBlock(t) ==
    /\ Turn("censor")
    /\ pc["censor"] = "wait"
    /\ Len(cproxies) > 0
    /\ now' = wake["censor"]
    /\ LET sorted == SortDesc(cproxies, queue)
           block_proxy == sorted[1]
       IN  /\ notify_block(block_proxy, now')
           /\ last' = [NoCall EXCEPT !.op = "notify_block",
                          !.proxy = block_proxy,
                          !.action = BlockAction(dproxies, dblocked,
                                                 block_proxy),
                          !.n = Len(devents)]
           /\ IF ExitsOnBlock(dproxies, dblocked, block_proxy)
              THEN /\ cproxies' = sorted
                   /\ t = 0
                   /\ pc' = [pc EXCEPT !["censor"] = "done"]
                   /\ UNCHANGED <<cblocked, wake>>
              ELSE /\ cblocked' = Append(cblocked, block_proxy)
                   /\ cproxies' = KnownAfterBlock(sorted, block_proxy)
                   /\ now' + t <= MaxTime
                   /\ wake' = [wake EXCEPT !["censor"] = now' + t]
                   /\ UNCHANGED pc
    /\ lastRan' = "censor"
    /\ UNCHANGED <<num_proxies, censor_bootstrap, trace, cevents, queue,
                   counter>>

\* one iteration of the loop with no known proxy: only the delay
CensorIdle(t) ==
    /\ Turn("censor")
    /\ pc["censor"] = "wait"
    /\ Len(cproxies) = 0
    /\ now' = wake["censor"]
    /\ now' + t <= MaxTime
    /\ wake' = [wake EXCEPT !["censor"] = now' + t]
    /\ lastRan' = "censor"
    /\ UNCHANGED <<num_proxies, censor_bootstrap, trace, panic_level,
                   dproxies, dblocked, devents, cproxies, cblocked, cevents,
                   queue, counter, pc, running, last>>

\* -------------------------------------------- generate_clients, client_arrival
\* (mutant) the loop goes on whatever the active list
LoopCondition_Always(active) == TRUE

\* while (len(distributor.proxies) > 0)
LoopCondition(active) == Len(active) > 0

\* one iteration of the loop: client_arrival for 'Client counter', then the
\* delay t.  i1, i2, i3 are the draws of assign, malicious the flag.
\* Bound: once MaxIdle arrivals have enumerated nothing new, a further
\* arrival enumerates a new proxy or, when no draw can, leaves the next
\* turn to the censor, which then blocks a proxy it knows.
ClientArrival(i1, i2, i3, malicious, t) ==
    /\ Turn("arrival")
    /\ LoopCondition(dproxies)
    /\ Len(dproxies) > 0
    /\ now' = wake["arrival"]
    /\ LET r == assign(dproxies, queue, panic_level, i1, i2, i3)
       IN  /\ \/ Idle < MaxIdle
              \/ malicious /\ IsNewToCensor(cproxies, cblocked, r.proxy)
              \/ NothingNew /\ now' + t >= wake["censor"]
           /\ queue' = IF r.started
                       THEN [queue EXCEPT ![r.proxy] = @ + 1]
                       ELSE queue
           /\ last' = [NoCall EXCEPT !.op = "assign", !.proxy = r.proxy,
                          !.started = r.started, !.panic = panic_level,
                          !.active = dproxies, !.q = queue, !.i1 = i1,
                          !.i2 = i2, !.malicious = malicious,
                          !.client = NextCounter]
           /\ IF malicious
              THEN /\ cproxies' = KnownAfterEnumerate(cproxies, cblocked,
                                                      r.proxy)
                   /\ cevents' = Append(cevents,
                          EnumerateEvent(cproxies, cblocked, r.proxy, now'))
                   /\ UNCHANGED devents
              ELSE /\ devents' =
                          IF r.proxy \in Range(cproxies)
                          THEN Append(devents,
                                   create_event(now', "EXPOSE_CLIENT",
                                       dproxies, dblocked, r.proxy, 0))
                          ELSE devents
                   /\ UNCHANGED <<cproxies, cevents>>
    /\ counter' = NextCounter
    /\ now' + t <= MaxTime
    /\ wake' = [wake EXCEPT !["arrival"] = now' + t]
    /\ pc' = [pc EXCEPT !["arrival"] = "wait"]
    /\ lastRan' = "arrival"
    /\ UNCHANGED <<num_proxies, censor_bootstrap, trace, panic_level,
                   dproxies, dblocked, cblocked, running>>

\* the process ends: the loop condition fails, or the loop goes on with an
\* empty active list and assign, called by client_arrival, exits before it
\* draws (lines 81-84)
ArrivalExit ==
    /\ Turn("arrival")
    /\ ~LoopCondition(dproxies) \/ Len(dproxies) = 0
    /\ now' = wake["arrival"]
    /\ counter' = NextCounter
    /\ pc' = [pc EXCEPT !["arrival"] = "done"]
    /\ IF LoopCondition(dproxies)
       THEN /\ last' = [NoCall EXCEPT !.op = "assign",
                           !.panic = panic_level, !.active = dproxies,
                           !.q = queue, !.client = NextCounter]
            /\ running' = FALSE
       ELSE UNCHANGED <<running, last>>
    /\ UNCHANGED <<num_proxies, censor_bootstrap, trace, panic_level,
                   dproxies, dblocked, devents, cproxies, cblocked, cevents,
                   queue, wake, lastRan>>

\* ------------------------------------------------------------ Proxy.service
\* an active proxy finishes serving a client, who leaves its queue
ServiceDone(p) ==
    /\ p \in Range(dproxies)
    /\ queue[p] > 0
    /\ queue' = [queue EXCEPT ![p] = @ - 1]
    /\ last' = [NoCall EXCEPT !.op = "service", !.proxy = p]
    /\ UNCHANGED <<num_proxies, censor_bootstrap, trace, panic_level,
                   dproxies, dblocked, devents, cproxies, cblocked, cevents,
                   counter, now, wake, pc, lastRan, running>>

\* ------------------------------------------------------------------- run
\* Distributor._bootstrap: 'Proxy 0' .. 'Proxy n-1' in order
Bootstrap(n) == [i \in 1 .. n |-> i - 1]

\* the state run(seed, client_arrival_rate, n, censor_bootstrap, trace)
\* has built when it calls env.run()
InitRun(n) ==
    /\ num_proxies = n
    /\ censor_bootstrap \in 0 .. MaxTime
    /\ trace = FALSE
    /\ panic_level = 0
    /\ dproxies = Bootstrap(num_proxies)
    /\ dblocked = <<>>
    /\ devents = <<>>
    /\ cproxies = <<>>
    /\ cblocked = <<>>
    /\ cevents = <<>>
    /\ queue = [p \in 0 .. (num_proxies - 1) |-> 0]
    /\ counter = 0
    /\ now = 0
    /\ wake = [proc \in {"censor", "arrival"} |-> 0]
    /\ pc = [proc \in {"censor", "arrival"} |-> "start"]
    /\ lastRan = "arrival"
    /\ running = TRUE
    /\ last = NoCall
    /\ run_no = 1
    /\ tape = <<>>
    /\ replay = <<>>
    /\ returned = <<>>

Init == \E n \in 0 .. MaxProxies : InitRun(n)

\* a run with four proxies
InitFour == InitRun(4)

\* a run with the fewest proxies that leave VICTIM_SET of them active once
\* the blocked ones outnumber them
InitPanic == InitRun(2 * VICTIM_SET + 1)

Next ==
    \/ CensorStart /\ UNCHANGED rvars
    \/ \E t \in 0 .. MaxTime : CensorBlock(t) /\ UNCHANGED rvars
    \/ \E t \in 0 .. MaxTime : CensorIdle(t) /\ UNCHANGED rvars
    \/ \E i1, i2 \in 0 .. (Len(dproxies) - 1), malicious \in BOOLEAN,
          t \in 0 .. MaxTime :
          \E i3 \in ThirdDraws(dproxies, panic_level) :
             ClientArrival(i1, i2, i3, malicious, t) /\ UNCHANGED rvars
    \/ ArrivalExit /\ UNCHANGED rvars
    \/ \E p \in DOMAIN queue : ServiceDone(p) /\ UNCHANGED rvars

Spec == Init /\ [][Next]_vars

\* --------------------------------------------- the operations, call by call
\* A driver that holds the Distributor run() has built and calls its
\* operations directly, in any order, as a unit test does; env.exit() ends
\* the call it is raised in, and the driver goes on; between calls the
\* proxies serve their clients.  counter numbers the clients the driver
\* creates.  Bound: num_proxies + MaxRepeat calls.
CallsLeft == counter + Len(devents) < num_proxies + MaxRepeat

CallAssign(i1, i2, i3) ==
    /\ CallsLeft
    /\ Len(dproxies) > 0
    /\ LET r == assign(dproxies, queue, panic_level, i1, i2, i3)
       IN  /\ queue' = IF r.started
                       THEN [queue EXCEPT ![r.proxy] = @ + 1]
                       ELSE queue
           /\ last' = [NoCall EXCEPT !.op = "assign", !.proxy = r.proxy,
                          !.started = r.started, !.panic = panic_level,
                          !.active = dproxies, !.q = queue, !.i1 = i1,
                          !.i2 = i2, !.client = counter]
    /\ counter' = counter + 1
    /\ UNCHANGED <<num_proxies, censor_bootstrap, trace, panic_level,
                   dproxies, dblocked, devents, cproxies, cblocked, cevents,
                   now, wake, pc, lastRan, running>>

CallNotifyBlock(p) ==
    /\ CallsLeft
    /\ notify_block(p, now)
    /\ last' = [NoCall EXCEPT !.op = "notify_block", !.proxy = p,
                   !.action = BlockAction(dproxies, dblocked, p),
                   !.n = Len(devents)]
    /\ UNCHANGED <<num_proxies, censor_bootstrap, trace, cproxies, cblocked,
                   cevents, queue, counter, now, wake, pc, lastRan>>

NextCalls ==
    \/ \E i1, i2 \in 0 .. (Len(dproxies) - 1) :
          \E i3 \in ThirdDraws(dproxies, panic_level) :
             CallAssign(i1, i2, i3) /\ UNCHANGED rvars
    \/ \E p \in DOMAIN queue : CallNotifyBlock(p) /\ UNCHANGED rvars
    \/ \E p \in DOMAIN queue : ServiceDone(p) /\ UNCHANGED rvars

SpecCalls == Init /\ [][NextCalls]_vars

SpecCallsFour == InitFour /\ [][NextCalls]_vars

SpecCallsPanic == InitPanic /\ [][NextCalls]_vars

\* ------------------------------------------------- run() called a second time
\* A draw: the step the scheduler takes and the random values it consumes.
\* The seeds taken are those whose service times outlast the run.
NoDraw ==
    [step |-> "none", t |-> 0, i1 |-> 0, i2 |-> 0, i3 |-> 0,
     malicious |-> FALSE]

Draws ==
    {[NoDraw EXCEPT !.step = "CensorStart"],
     [NoDraw EXCEPT !.step = "ArrivalExit"]}
    \cup {[NoDraw EXCEPT !.step = a, !.t = t] :
             a \in {"CensorBlock", "CensorIdle"}, t \in 0 .. MaxTime}
    \cup {[step |-> "ClientArrival", t |-> t, i1 |-> i1, i2 |-> i2,
           i3 |-> i3, malicious |-> m] :
             t \in 0 .. MaxTime, i1 \in 0 .. (Len(dproxies) - 1),
             i2 \in 0 .. (Len(dproxies) - 1),
             i3 \in ThirdDraws(dproxies, panic_level), m \in BOOLEAN}

\* the step of the run that consumes draw d
Take(d) ==
    \/ d.step = "CensorStart" /\ CensorStart
    \/ d.step = "CensorBlock" /\ CensorBlock(d.t)
    \/ d.step = "CensorIdle" /\ CensorIdle(d.t)
    \/ d.step = "ClientArrival"
          /\ d.i1 < Len(dproxies) /\ d.i2 < Len(dproxies)
          /\ ClientArrival(d.i1, d.i2, d.i3, d.malicious, d.t)
    \/ d.step = "ArrivalExit" /\ ArrivalExit

\* the variables of one run
svars == <<panic_level, dproxies, dblocked, devents, cproxies, cblocked,
           cevents, queue, counter, now, wake, pc, lastRan, running, last>>

\* the first run, its draws recorded (but for the iterations of the
\* censor's loop that change nothing)
FirstRun ==
    /\ run_no = 1
    /\ \E d \in Draws : Take(d) /\ tape' = Append(tape, d)
    /\ svars' # svars
    /\ UNCHANGED <<run_no, replay, returned>>

\* (mutant) the censor's log first
RunResult_CensorFirst == cevents \o devents

\* what run returns: distributor.events + censor.events
RunResult == devents \o cevents

\* env.run() has returned: no process is pending
Returned == \A proc \in {"censor", "arrival"} : pc[proc] = "done"

\* (mutant) run() leaves the module-level panic_level as it finds it
RunPanicLevel_Stale(pl) == pl

\* panic_level as run() sets it before it builds anything
RunPanicLevel(pl) == 0

\* run() is called again in the same process, once the first call has
\* returned distributor.events + censor.events: same seed, same arguments
\* but for trace; the module-level panic_level is what the first run left.
RunAgain ==
    /\ run_no = 1
    /\ Returned
    /\ returned' = RunResult
    /\ replay' = tape
    /\ run_no' = 2
    /\ trace' \in BOOLEAN
    /\ panic_level' = RunPanicLevel(panic_level)
    /\ dproxies' = Bootstrap(num_proxies)
    /\ dblocked' = <<>>
    /\ devents' = <<>>
    /\ cproxies' = <<>>
    /\ cblocked' = <<>>
    /\ cevents' = <<>>
    /\ queue' = [p \in 0 .. (num_proxies - 1) |-> 0]
    /\ counter' = 0
    /\ now' = 0
    /\ wake' = [proc \in {"censor", "arrival"} |-> 0]
    /\ pc' = [proc \in {"censor", "arrival"} |-> "start"]
    /\ lastRan' = "arrival"
    /\ running' = TRUE
    /\ last' = NoCall
    /\ UNCHANGED <<num_proxies, censor_bootstrap, tape>>

\* the second run under the same seed: it makes the draws of the first
SecondRun ==
    /\ run_no = 2
    /\ replay # <<>>
    /\ Take(Head(replay))
    /\ replay' = Tail(replay)
    /\ UNCHANGED <<run_no, tape, returned>>

NextTwice == FirstRun \/ RunAgain \/ SecondRun

\* runs whose censor starts to block at once
InitTwice == Init /\ censor_bootstrap = 0

SpecTwice == InitTwice /\ [][NextTwice]_vars

\* the scheduler resumes a pending process whenever there is one
FairSpec == Init /\ [][Next]_vars /\ WF_vars(Next)

\* ------------------------------------------------------------------ claims
AllEvents == devents \o cevents

DeathCount ==
    Cardinality({i \in 1 .. Len(AllEvents) :
                    AllEvents[i].action = "PROXY_DEATH"})

\* a step in which assign is called
AssignStep == last' # last /\ last'.op = "assign"

\* a step in which notify_block is called
NotifyStep == last' # last /\ last'.op = "notify_block"

\* the first k proxies of the active list ordered by decreasing load
MostLoaded(active, q, k) == {SortDesc(active, q)[j] : j \in 1 .. k}

\* C1: the Distributor's active and blocked lists never share a proxy, no
\* step takes a proxy out of the blocked list, and no step adds a proxy to
\* the active list.
C1_ActiveBlockedDisjoint ==
    /\ [](Range(dproxies) \cap Range(dblocked) = {})
    /\ [][/\ Range(dblocked) \subseteq Range(dblocked')
          /\ Range(dproxies') \subseteq Range(dproxies)]_vars

C1_Witness == Len(dblocked) > 0 /\ Len(dproxies) > 0

\* C2: a run records at most one PROXY_DEATH, and after it no step appends
\* an event to either log or calls assign.
C2_OneDeathThenNothing ==
    /\ [](DeathCount <= 1)
    /\ [][DeathCount = 1 =>
            /\ devents' = devents
            /\ cevents' = cevents
            /\ ~AssignStep]_vars

C2_Witness ==
    /\ DeathCount = 1 /\ Len(cevents) > 1
    /\ pc["arrival"] = "done" /\ counter > 1

\* the run has ended: nothing is active, PROXY_DEATH is recorded and no
\* process is pending
Terminated == Len(dproxies) = 0 /\ DeathCount = 1 /\ ~running /\ Returned

\* C3: every run, whatever num_proxies (0 and 1 included), eventually ends
\* with the active list empty, PROXY_DEATH recorded and no process pending.
C3_Original == <>Terminated

\* the part of C3 that holds: every run with at least one proxy ends so
C3_Terminates == (num_proxies >= 1) => <>Terminated

\* C4: panic_level is 0 when the run starts and never decreases; a step
\* changes it only by +1, only in a notify_block call that records
\* PROXY_BLOCK, and only with the blocked list then strictly longer than
\* the active list.
C4_PanicLevel ==
    /\ [](pc["censor"] = "start" => panic_level = 0)
    /\ [][/\ panic_level' >= panic_level
          /\ panic_level' # panic_level =>
               /\ panic_level' = panic_level + 1
               /\ NotifyStep
               /\ devents'[Len(devents')].action = "PROXY_BLOCK"
               /\ Len(dblocked') > Len(dproxies')]_vars

C4_Witness == panic_level > 0 /\ Len(cevents) > 0

\* C5: an assign call in panic mode returns one of the victim_size most
\* loaded active proxies, victim_size = floor(|active| / VICTIM_SET), and
\* the single most loaded one when victim_size is 0.
C5_PanicAssignsMostLoaded ==
    (last.op = "assign" /\ last.panic > 0) =>
        LET victim_size == Len(last.active) \div VICTIM_SET
        IN  IF victim_size > 0
            THEN last.proxy \in MostLoaded(last.active, last.q, victim_size)
            ELSE last.proxy \in MostLoaded(last.active, last.q, 1)

\* C6 as stated: with four proxies, an assign call in panic mode computes
\* victim_size 2 and returns one of the two most loaded active proxies.
C6_Original ==
    (last.op = "assign" /\ last.panic > 0) =>
        /\ VictimSize(last.active) = 2
        /\ last.proxy \in MostLoaded(last.active, last.q, 2)

\* C6: with four proxies, whenever panic_level > 0 at most one proxy is
\* active, so the victim_size of assign is 0, and an assign call in panic
\* mode returns the one active proxy.
C6_FourProxiesPanic ==
    /\ panic_level > 0 => (Len(dproxies) <= 1 /\ VictimSize(dproxies) = 0)
    /\ (last.op = "assign" /\ last.panic > 0) =>
          /\ VictimSize(last.active) = 0
          /\ last.active = <<last.proxy>>

C6_Witness == num_proxies = 4 /\ last.op = "assign" /\ last.panic > 0

\* C7: an assign call in default mode returns the second drawn proxy when
\* its queue is strictly shorter than the first drawn proxy's, and the
\* first drawn proxy otherwise; the proxy returned never has the longer
\* queue of the two.
C7_DefaultAssign ==
    (last.op = "assign" /\ last.panic = 0) =>
        LET first == last.active[last.i1 + 1]
            second == last.active[last.i2 + 1]
        IN  /\ last.proxy =
                  IF last.q[second] < last.q[first] THEN second ELSE first
            /\ last.q[last.proxy] <= last.q[first]
            /\ last.q[last.proxy] <= last.q[second]

C7_Witness ==
    /\ last.op = "assign" /\ last.panic = 0
    /\ last.q[last.active[last.i2 + 1]] < last.q[last.active[last.i1 + 1]]
    /\ last.proxy = last.active[last.i2 + 1]

\* C8: a notify_block call that follows a notify_block call on the same
\* proxy, the first having recorded one PROXY_BLOCK or PROXY_DEATH, appends
\* one MISS_PROXY_BLOCK with the health of the current counts and leaves
\* the active list, the blocked list and panic_level as they are.
C8_SecondBlockIsMiss ==
    [][(/\ NotifyStep
        /\ last.op = "notify_block"
        /\ last.proxy = last'.proxy
        /\ last.action # "MISS_PROXY_BLOCK") =>
           /\ Len(devents) = last.n + 1
           /\ devents[Len(devents)].action \in {"PROXY_BLOCK", "PROXY_DEATH"}
           /\ devents[Len(devents)].proxy = last.proxy
           /\ devents' = Append(devents,
                  [time |-> now, action |-> "MISS_PROXY_BLOCK",
                   active |-> dproxies, blocked |-> dblocked,
                   proxy |-> last.proxy,
                   health |-> (100 * Len(dproxies))
                                \div (Len(dproxies) + Len(dblocked))])
           /\ UNCHANGED <<dproxies, dblocked, panic_level>>]_vars

C8_Witness ==
    /\ last.op = "notify_block" /\ last.action = "MISS_PROXY_BLOCK"
    /\ Len(devents) >= 2
    /\ devents[Len(devents) - 1].proxy = last.proxy
    /\ devents[Len(devents) - 1].action = "PROXY_DEATH"

\* C9: a notify_block call on a proxy that is not blocked records
\* PROXY_DEATH when that proxy was the last active one and PROXY_BLOCK
\* otherwise; with PROXY_DEATH the health recorded is 0, panic_level stays
\* and the scheduler is stopped with the event in the log; with one proxy
\* no PROXY_BLOCK is ever recorded.
C9_DeathOrBlock ==
    /\ [][(NotifyStep /\ last'.proxy \notin Range(dblocked)) =>
            LET e == devents'[Len(devents')]
            IN  /\ Len(devents') = Len(devents) + 1
                /\ e.proxy = last'.proxy
                /\ e.action = IF Range(dproxies) = {last'.proxy}
                              THEN "PROXY_DEATH" ELSE "PROXY_BLOCK"
                /\ e.action = "PROXY_DEATH" =>
                      /\ e.health = 0
                      /\ panic_level' = panic_level
                      /\ ~running'
                /\ e.action = "PROXY_BLOCK" => running' = running]_vars
    /\ [](~running => DeathCount = 1)
    /\ [](num_proxies = 1 =>
             \A i \in 1 .. Len(devents) : devents[i].action # "PROXY_BLOCK")

C9_Witness ==
    /\ num_proxies = 1
    /\ last.op = "notify_block" /\ last.action = "PROXY_DEATH"

\* C10: a second run with the seed and the arguments of the first, whatever
\* its trace flag and whatever panic_level the first run left, can make
\* every draw the first run made and returns the events the first returned.
C10_SameSeedSameEvents ==
    /\ (run_no = 2 /\ replay # <<>>) => ENABLED SecondRun
    /\ (run_no = 2 /\ replay = <<>>) =>
          (Returned /\ devents \o cevents = returned)

C10_Witness ==
    /\ run_no = 2 /\ replay = <<>> /\ trace
    /\ tape # <<>>
    /\ \E i \in 1 .. Len(returned) : returned[i].action = "PROXY_BLOCK"

\* C11: no PROXY_BLOCK, MISS_PROXY_BLOCK or PROXY_DEATH event has a time
\* earlier than censor_bootstrap, and the Distributor's blocked list is
\* empty while the clock is before censor_bootstrap.
C11_NoBlockBeforeBootstrap ==
    /\ \A i \in 1 .. Len(devents) :
          devents[i].action \in
              {"PROXY_BLOCK", "MISS_PROXY_BLOCK", "PROXY_DEATH"}
          => devents[i].time >= censor_bootstrap
    /\ now < censor_bootstrap => dblocked = <<>>

\* a proxy enumerated before the bootstrap delay has elapsed is blocked
\* once it has
C11_Witness ==
    /\ censor_bootstrap > 0
    /\ Len(dblocked) > 0
    /\ \E i \in 1 .. Len(cevents) : cevents[i].time < censor_bootstrap

\* C12: every assign call that returns a proxy has started one service
\* process for the client on the proxy it returns (the client has joined
\* that proxy's queue), in every branch.
C12_AssignStartsService ==
    (last.op = "assign" /\ last.proxy # NoProxy) =>
        /\ last.started
        /\ queue[last.proxy] = last.q[last.proxy] + 1

DistributorActions ==
    {"EXPOSE_CLIENT", "PROXY_BLOCK", "MISS_PROXY_BLOCK", "PROXY_DEATH"}

CensorActions == {"ENUMERATE_PROXY", "MISS_ENUMERATE_PROXY"}

\* the times of s[a], ..., s[b] do not decrease
TimesOrdered(s, a, b) ==
    \A i, j \in a .. b : i < j => s[i].time <= s[j].time

\* the number of Distributor events in what run returns
NumDistributor ==
    Cardinality({i \in 1 .. Len(RunResult) :
                    RunResult[i].action \in DistributorActions})

\* C13 as stated: what run returns is one chronological log, its times
\* non-decreasing, with PROXY_DEATH its last element.
C13_Original ==
    Returned =>
        /\ TimesOrdered(RunResult, 1, Len(RunResult))
        /\ RunResult[Len(RunResult)].action = "PROXY_DEATH"

\* C13: what run returns is the Distributor's events in the order
\* recorded, then the Censor's events in the order recorded; times are
\* non-decreasing within each part; PROXY_DEATH is the last Distributor
\* event and at least one Censor event follows it.
C13_TwoLogs ==
    Returned =>
        LET k == NumDistributor
            n == Len(RunResult)
        IN  /\ \A i \in 1 .. k : RunResult[i].action \in DistributorActions
            /\ \A i \in (k + 1) .. n : RunResult[i].action \in CensorActions
            /\ TimesOrdered(RunResult, 1, k)
            /\ TimesOrdered(RunResult, k + 1, n)
            /\ k >= 1 /\ k < n
            /\ RunResult[k].action = "PROXY_DEATH"
            /\ RunResult[n].action = "ENUMERATE_PROXY"
               \/ RunResult[n].action = "MISS_ENUMERATE_PROXY"

\* a returned log whose last element is earlier than PROXY_DEATH
C13_Witness ==
    /\ Returned
    /\ RunResult[Len(RunResult)].time < RunResult[NumDistributor].time
    /\ RunResult[NumDistributor].action = "PROXY_DEATH"

\* C14: every assign call of a run is made with at least one active proxy
\* (so the branch of assign for an empty list is never taken) and returns
\* an active proxy.
C14_AssignNeverEmpty ==
    [][AssignStep =>
          /\ Len(dproxies) > 0
          /\ last'.active = dproxies
          /\ last'.proxy \in Range(dproxies)
          /\ running']_vars

\* an assign call between two blocks of the censor, one proxy left
C14_Witness ==
    /\ last.op = "assign"
    /\ Len(last.active) = 1
    /\ Len(dblocked) > 0
    /\ pc["censor"] = "wait"

\* C15 as stated: an assign call is made only after the arrival process
\* has been suspended for a sampled delay, and clients are numbered 0, 1,
\* ... in arrival order.
C15_Original ==
    [][AssignStep =>
          /\ pc["arrival"] = "wait"
          /\ last'.client = IF pc["arrival"] = "start" THEN 0
                            ELSE counter + 1]_vars

\* C15: each iteration of the arrival loop first creates the client and
\* calls assign, at the time the process is resumed, and only then suspends
\* for the sampled delay; 'Client 0' is created at time 0, when the process
\* starts, before any delay; clients are numbered 0, 1, ... in arrival
\* order without gaps or repeats.
C15_ArrivalThenDelay ==
    /\ [][AssignStep =>
            /\ now' = wake["arrival"]
            /\ last'.client = IF pc["arrival"] = "start" THEN 0
                              ELSE counter + 1
            /\ counter' = last'.client
            /\ pc'["arrival"] = "wait"
            /\ wake'["arrival"] >= now']_vars
    /\ [][(pc["arrival"] = "start" /\ pc'["arrival"] # "start"
              /\ num_proxies > 0) =>
            /\ AssignStep
            /\ last'.client = 0
            /\ now' = 0]_vars
    /\ [][counter' # counter => (AssignStep \/ pc'["arrival"] = "done")]_vars

\* 'Client 0' has been assigned a proxy and the first delay has not elapsed
C15_Witness ==
    /\ last.op = "assign" /\ last.client = 0
    /\ now = 0
    /\ wake["arrival"] > now

\* the position of p in the list s
IndexOf(s, p) == CHOOSE i \in 1 .. Len(s) : s[i] = p

\* C16: the proxy the censor's loop blocks has the greatest queue length of
\* the proxies the censor knows at that moment, and is the first of the
\* known list among those with that length; with nothing known the
\* iteration blocks nothing and only schedules the next delay.
C16_BlocksMostLoaded ==
    /\ [][NotifyStep =>
            /\ last'.proxy \in Range(cproxies)
            /\ \A p \in Range(cproxies) : queue[p] <= queue[last'.proxy]
            /\ \A j \in 1 .. (IndexOf(cproxies, last'.proxy) - 1) :
                   queue[cproxies[j]] < queue[last'.proxy]]_vars
    /\ [][Len(cproxies) = 0 =>
            /\ ~NotifyStep
            /\ UNCHANGED <<dproxies, dblocked, cblocked, panic_level>>
            /\ (pc["censor"] = "wait"
                   /\ wake'["censor"] # wake["censor"]) =>
                  UNCHANGED <<devents, cproxies, cevents, queue, pc>>]_vars

\* the censor has blocked a proxy with a longer queue than one it knew
\* before it
C16_Witness ==
    /\ last.op = "notify_block"
    /\ \E p \in Range(cproxies) :
          /\ queue[p] < queue[last.proxy]
          /\ \E i, j \in 1 .. Len(cevents) :
                /\ i < j
                /\ cevents[i].proxy = p
                /\ cevents[j].proxy = last.proxy
                /\ cevents[i].action = "ENUMERATE_PROXY"
                /\ cevents[j].action = "ENUMERATE_PROXY"

\* a step in which Censor.enumerate is called
EnumerateStep == cevents' # cevents

\* the number of ENUMERATE_PROXY events recorded for proxy p
EnumerateCount(p) ==
    Cardinality({i \in 1 .. Len(cevents) :
                    /\ cevents[i].action = "ENUMERATE_PROXY"
                    /\ cevents[i].proxy = p})

\* C17: enumerate(proxy) appends the proxy to the known list and records
\* ENUMERATE_PROXY exactly when the proxy is in neither list of the censor,
\* and otherwise records MISS_ENUMERATE_PROXY and changes no list; it is
\* called for every malicious client; the known list never holds a proxy
\* twice, shares no proxy with the censor's blocked list, and no proxy has
\* more than one ENUMERATE_PROXY event.
C17_Enumerate ==
    /\ [][EnumerateStep =>
            LET p == last'.proxy
                e == cevents'[Len(cevents')]
            IN  /\ AssignStep /\ last'.malicious
                /\ cevents' = Append(cevents, e)
                /\ e.proxy = p
                /\ cblocked' = cblocked
                /\ IF p \notin Range(cproxies) /\ p \notin Range(cblocked)
                   THEN /\ e.action = "ENUMERATE_PROXY"
                        /\ cproxies' = Append(cproxies, p)
                   ELSE /\ e.action = "MISS_ENUMERATE_PROXY"
                        /\ cproxies' = cproxies]_vars
    /\ [][(AssignStep /\ last'.malicious /\ last'.proxy # NoProxy)
             => EnumerateStep]_vars
    /\ [](Cardinality(Range(cproxies)) = Len(cproxies))
    /\ [](Range(cproxies) \cap Range(cblocked) = {})
    /\ [](\A p \in DOMAIN queue : EnumerateCount(p) <= 1)

\* a proxy the censor knew has been reported to it again
C17_Witness ==
    \E i, j \in 1 .. Len(cevents) :
       /\ i < j
       /\ cevents[i].action = "ENUMERATE_PROXY"
       /\ cevents[j].action = "MISS_ENUMERATE_PROXY"
       /\ cevents[i].proxy = cevents[j].proxy

\* C18: between the steps of the censor's loop, and when the run has
\* ended, the censor's blocked list is the Distributor's blocked list and
\* the censor's known list holds no proxy the Distributor has blocked: the
\* proxy blocked last, with PROXY_DEATH, included.
C18_CensorListsInSync ==
    /\ cblocked = dblocked
    /\ Range(cproxies) \cap Range(dblocked) = {}

\* the number of PROXY_BLOCK and PROXY_DEATH events recorded
BlockCount ==
    Cardinality({i \in 1 .. Len(devents) :
                    devents[i].action \in {"PROXY_BLOCK", "PROXY_DEATH"}})

\* C19: in a run notify_block is called at most once for a proxy, and
\* never for a blocked one, so no MISS_PROXY_BLOCK is recorded; there are
\* never more PROXY_BLOCK and PROXY_DEATH events than proxies.
C19_NoMissBlock ==
    /\ [][NotifyStep =>
            /\ last'.proxy \notin Range(dblocked)
            /\ last'.action # "MISS_PROXY_BLOCK"]_vars
    /\ [](\A i \in 1 .. Len(devents) :
             devents[i].action # "MISS_PROXY_BLOCK")
    /\ [](\A i, j \in 1 .. Len(devents) :
             (/\ i # j
              /\ devents[i].action \in {"PROXY_BLOCK", "PROXY_DEATH"}
              /\ devents[j].action \in {"PROXY_BLOCK", "PROXY_DEATH"})
             => devents[i].proxy # devents[j].proxy)
    /\ [](BlockCount <= num_proxies)

\* every proxy of the largest population has been blocked once
C19_Witness ==
    /\ num_proxies = MaxProxies
    /\ BlockCount = num_proxies
    /\ Returned

\* ceil(n / 2)
HalfUp(n) == (n + 1) \div 2

\* C20 as stated: panic_level > 0 implies more blocked than active proxies
\* (fewer than half of them active); active and blocked proxies are
\* num_proxies together; panic_level is at most ceil(num_proxies / 2) - 1.
C20_Original ==
    /\ panic_level > 0 =>
          /\ Len(dblocked) > Len(dproxies)
          /\ 2 * Len(dproxies) < num_proxies
    /\ Len(dproxies) + Len(dblocked) = num_proxies
    /\ panic_level <= HalfUp(num_proxies) - 1

\* C20: the same, with panic_level at most ceil(num_proxies / 2) - 1 when
\* there is a proxy, and 0 when num_proxies is 0.
C20_PanicBound ==
    /\ panic_level > 0 =>
          /\ Len(dblocked) > Len(dproxies)
          /\ 2 * Len(dproxies) < num_proxies
    /\ Len(dproxies) + Len(dblocked) = num_proxies
    /\ panic_level <= IF num_proxies = 0 THEN 0
                      ELSE HalfUp(num_proxies) - 1

\* assign has run in panic mode with panic_level at its bound
C20_Witness ==
    /\ last.op = "assign" /\ last.panic > 0
    /\ panic_level = HalfUp(num_proxies) - 1
    /\ Len(dproxies) > 0

=============================================================================
